---- MODULE Spec2Model ----
(***************************************************************************)
(* Model of the git repository updater: main() of src/src/update_repos.py  *)
(* driving update_repository(), the GitRepo context manager of             *)
(* src/util/git_operations.py and the CSV loader of                        *)
(* src/util/csv_handler.py.                                                *)
(*                                                                         *)
(* The program is sequential.  Every git command is one step whose outcome *)
(* (success, failure) is chosen by the environment.  A KeyboardInterrupt   *)
(* is an asynchronous exception: it may be raised at any point of the try  *)
(* block of main(), also while subprocess.run() waits for a git command.   *)
(***************************************************************************)
EXTENDS Integers, Sequences, FiniteSets, TLC

\* ---------------------------------------------------------------- bounds
\* rows of the CSV file, and branches named by its enabled rows altogether
MaxRows == 2
MaxBranches == 3

\* ---------------------------------------------------------------- inputs
BranchNames == {"main", "dev"}
InitHeads == {"main", "topic"}
NoBranch == "<None>"
CsvKinds == {"missing", "vanishes", "not_a_file", "no_header", "no_columns", "ok"}

SeqsUpTo(S, n) == UNION {[1..k -> S] : k \in 0..n}
BranchLists == SeqsUpTo(BranchNames, MaxBranches)
NoRepo == [path |-> 0, branches |-> <<>>]

\* A cell of a row of csv.DictReader: a text (a tuple of characters), None
\* where the row is shorter than the header, or no key at all where the
\* header has no such column.  The branches cell holds the list that
\* from_csv_row splits it into; is_repo is what Repository.validate finds on
\* disk for the path of the row.
NoneCell == [none |-> TRUE]
AbsentCell == [absent |-> TRUE]
Text(s) == [text |-> s]
List(b) == [list |-> b]

PathTexts == {<<"/", "r">>, <<>>, <<" ">>}
EnabledTexts ==
    { <<"t", "r", "u", "e">>, <<"T", "r", "u", "e">>, <<" ", "T", "R", "U", "E", " ">>,
      <<"y", "e", "s">>, <<"Y", "E", "S", " ">>, <<"1">>, <<" ", "1">>, <<>>, <<" ", " ">>,
      <<"f", "a", "l", "s", "e">>, <<"n", "o">>, <<"0">>, <<"o", "n">>, <<"y">>,
      <<"t", " ", "r", "u", "e">> }

PathCells == {NoneCell} \cup {Text(t) : t \in PathTexts}
BranchCells == {NoneCell} \cup {List(b) : b \in BranchLists}
EnabledCells == {NoneCell, AbsentCell} \cup {Text(t) : t \in EnabledTexts}

RawRows ==
    [path : PathCells, branches : BranchCells, enabled : EnabledCells, is_repo : BOOLEAN]

\* the rows with every cell present and a path of their own
Rows ==
    [path : {Text(<<"/", "r">>)}, branches : {List(b) : b \in BranchLists},
     enabled : {Text(<<"t", "r", "u", "e">>), Text(<<"f", "a", "l", "s", "e">>)},
     is_repo : BOOLEAN]

EXIT_OK == 0
EXIT_FAILURE == 1
EXIT_INTERRUPTED == 130
NOT_EXITED == -1

VARIABLES
    csv,              \* what args.csv is on disk
    dry_run,          \* args.dry_run
    pc,               \* position of main()
    row_num,          \* data rows read from the CSV so far
    branches_read,    \* branches of the repositories yielded so far
    disabled,         \* history: rows read whose enabled flag is false
    fault,            \* history: the cell whose None value from_csv_row tripped on
    enabled_cell,     \* history: the enabled cell of the last row read
    repo,             \* Repository being processed
    repo_count,       \* main: repo_count
    all_results,      \* main: all_results
    results,          \* update_repository: results
    entered,          \* GitRepo._entered
    original_branch,  \* GitRepo.original_branch
    i,                \* index of the branch iteration of update_repository
    head,             \* branch checked out in each working copy
    pending,          \* exception propagating through the with statement
    exc,              \* exception that left the for loop of main()
    exit_code,        \* process exit status
    summary,          \* print_summary printed the table
    warned,           \* __exit__ logged "Could not restore original branch"
    start_branch,     \* history: head of the working copy when update_repository began
    status_out,       \* history: what the status query of the current repository gave
    cmds,             \* history: git commands issued for the current repository
    outcomes,         \* history: how each of these commands ended
    git_calls,        \* history: number of _run_git invocations of the run
    restore,          \* history: fate of the restoring checkout of the current repository
    killed,           \* history: a git command was aborted in flight
    int_pc,           \* history: position at which the interrupt was raised
    unrestored        \* history: paths whose restoring checkout failed

vars == <<csv, dry_run, pc, row_num, branches_read, disabled, fault, enabled_cell, repo, repo_count, all_results, results,
          entered, original_branch, i, head, pending, exc, exit_code, summary,
          warned, start_branch, status_out, cmds, outcomes, git_calls, restore, killed,
          int_pc, unrestored>>

config == <<csv, dry_run>>
reader == <<row_num, branches_read, disabled, fault, enabled_cell>>
session == <<entered, original_branch, i>>
history == <<start_branch, status_out, cmds, outcomes, git_calls, restore, killed, int_pc,
             unrestored>>

\* Path(""): the current directory
CWD == MaxRows + 1
Paths == 1..MaxRows \cup {CWD}
BodyPcs == {"status", "fetch", "checkout", "pull"}
GitPcs == {"enter", "exit"} \cup BodyPcs
TryPcs == {"load", "next_row", "update_repository", "returned"} \cup GitPcs

\* ---------------------------------------------------------------- models.py
success_result(repo_path, branch, message) ==
    [repo_path |-> repo_path, branch |-> branch, success |-> TRUE, message |-> message]

failure_result(repo_path, branch, message) ==
    [repo_path |-> repo_path, branch |-> branch, success |-> FALSE, message |-> message]

validate(row) ==
    (IF row.is_repo THEN {} ELSE {"not a git repository"})
        \cup (IF row.branches = <<>> THEN {"no branches"} ELSE {})

\* str.strip and str.lower
IsSpace(c) == c \in {" ", "\t"}

RECURSIVE lstrip(_)
lstrip(s) == IF s # <<>> /\ IsSpace(Head(s)) THEN lstrip(Tail(s)) ELSE s

RECURSIVE rstrip(_)
rstrip(s) ==
    IF s # <<>> /\ IsSpace(s[Len(s)]) THEN rstrip(SubSeq(s, 1, Len(s) - 1)) ELSE s

strip(s) == rstrip(lstrip(s))

LowerChar(c) ==
    CASE c = "A" -> "a" [] c = "E" -> "e" [] c = "F" -> "f" [] c = "L" -> "l"
      [] c = "N" -> "n" [] c = "O" -> "o" [] c = "R" -> "r" [] c = "S" -> "s"
      [] c = "T" -> "t" [] c = "U" -> "u" [] c = "Y" -> "y" [] OTHER -> c

lower(s) == [k \in 1..Len(s) |-> LowerChar(s[k])]

\* from_csv_row, lines 45, 48 and 52: the first cell whose None has no strip()
Fault(row) ==
    CASE row.path = NoneCell -> "path"
      [] row.branches = NoneCell -> "branches"
      [] row.enabled = NoneCell -> "enabled"
      [] OTHER -> "none"

\* from_csv_row, line 45: Path(row["path"].strip()); row n names the
\* repository n, an empty text names the current directory
PathOf(text, n) == IF strip(text) = <<>> THEN CWD ELSE n

\* from_csv_row, line 52
EnabledStr(cell) ==
    lower(strip(IF cell = AbsentCell THEN <<"t", "r", "u", "e">> ELSE cell.text))

TRUE_VALUES == {<<"t", "r", "u", "e">>, <<"y", "e", "s">>, <<"1">>, <<>>}

\* from_csv_row, line 53
ParseEnabled(cell) == EnabledStr(cell) \in TRUE_VALUES

\* from_csv_row, lines 45-55, for a row without None cell
from_csv_row(row, n) ==
    [path |-> PathOf(row.path.text, n), branches |-> row.branches.list,
     enabled |-> ParseEnabled(row.enabled), is_repo |-> row.is_repo]

\* variant: the enabled flag is not looked at
Yields_Mut(enabled, errors) == errors = {}

\* get_enabled_repositories, lines 80-91
Yields(enabled, errors) == enabled /\ errors = {}

\* ---------------------------------------------------------------- update_repos.py helpers
DRY_RUN_MESSAGE == <<"[DRY RUN] Would update">>
DIRTY_MESSAGE == <<"Uncommitted changes present">>
FETCH_MESSAGE == <<"Failed to fetch remotes">>

CheckoutMessage(branch) == <<"Failed to checkout branch '", branch, "'">>

\* variant: a failed pull is reported as a failed checkout
PullMessage_Mut(branch) == CheckoutMessage(branch)

PullMessage(branch) == <<"Failed to pull branch '", branch, "'">>
UpdatedMessage(branch) == <<"Successfully updated '", branch, "'">>

DryRunResults(r) ==
    [k \in 1..Len(r.branches) |-> success_result(r.path, r.branches[k], DRY_RUN_MESSAGE)]

FailureResults(r, message) ==
    [k \in 1..Len(r.branches) |-> failure_result(r.path, r.branches[k], message)]

Failures(rs) == Cardinality({k \in 1..Len(rs) : ~rs[k].success})

\* variant: a working copy left off its original branch counts as a failure
ExitStatus_Mut(rs) ==
    IF Failures(rs) > 0 \/ unrestored # {} THEN EXIT_FAILURE ELSE EXIT_OK

\* main, lines 227-228
ExitStatus(rs) == IF Failures(rs) > 0 THEN EXIT_FAILURE ELSE EXIT_OK

\* variant: a release that never restores the original branch
ShouldRestore_Mut(branch) == FALSE

\* GitRepo.__exit__, line 71: an original branch was recorded
ShouldRestore(branch) == branch # NoBranch

\* variant: the dry-run flag is ignored
UsesSession_Mut(dry) == TRUE

\* update_repository, line 136: the real path, against the dry-run preview
UsesSession(dry) == ~dry

\* variant: a failed status query counts as a clean tree
IsDirty_Mut(out) == out = "dirty"

\* has_uncommitted_changes, lines 177-181: output, or a failed query
IsDirty(out) == out # "clean"

\* ---------------------------------------------------------------- initial state
Init ==
    /\ csv \in CsvKinds
    /\ dry_run \in BOOLEAN
    /\ pc = "main"
    /\ row_num = 0
    /\ branches_read = 0
    /\ disabled = {}
    /\ fault = "none"
    /\ enabled_cell = AbsentCell
    /\ repo = NoRepo
    /\ repo_count = 0
    /\ all_results = <<>>
    /\ results = <<>>
    /\ entered = FALSE
    /\ original_branch = NoBranch
    /\ i = 0
    /\ \E h \in InitHeads : head = [p \in Paths |-> h]
    /\ pending = "none"
    /\ exc = "none"
    /\ exit_code = NOT_EXITED
    /\ summary = FALSE
    /\ warned = FALSE
    /\ start_branch = NoBranch
    /\ status_out = "none"
    /\ cmds = <<>>
    /\ outcomes = <<>>
    /\ git_calls = 0
    /\ restore = "none"
    /\ killed = FALSE
    /\ int_pc = "none"
    /\ unrestored = {}

\* ---------------------------------------------------------------- main()
Terminate(status, e) ==
    /\ exit_code' = status
    /\ exc' = e
    /\ pc' = "done"

\* _run_git: one more command issued for the current repository
RunGit(cmd) ==
    /\ cmds' = Append(cmds, cmd)
    /\ git_calls' = git_calls + 1

\* how _run_git ended: it returned, or it raised GitError
Ended(ok) == outcomes' = Append(outcomes, IF ok THEN "ok" ELSE "failed")

\* main, lines 189-194: the CSV file does not exist
MainCheckCsv ==
    /\ pc = "main"
    /\ IF csv = "missing"
       THEN Terminate(EXIT_FAILURE, "none")
       ELSE /\ pc' = "load"
            /\ UNCHANGED <<exit_code, exc>>
    /\ UNCHANGED <<config, reader, repo, repo_count, all_results, results, session,
                   head, pending, summary, warned, history>>

\* load_repositories, lines 37-55, up to the first row; the exceptions it
\* raises reach main(), which handles FileNotFoundError only
LoadRepositories ==
    /\ pc = "load"
    /\ CASE csv = "vanishes" -> Terminate(EXIT_FAILURE, "FileNotFoundError")
         [] csv = "not_a_file" -> Terminate(EXIT_FAILURE, "ValueError")
         [] csv \in {"no_header", "no_columns"} ->
                /\ pc' = "after_loop"
                /\ UNCHANGED <<exit_code, exc>>
         [] OTHER ->
                /\ pc' = "next_row"
                /\ UNCHANGED <<exit_code, exc>>
    /\ UNCHANGED <<config, reader, repo, repo_count, all_results, results, session,
                   head, pending, summary, warned, history>>

\* the next row of the reader, drawn from the rows S: from_csv_row, whose
\* AttributeError no handler catches (load_repositories catches ValueError,
\* main() FileNotFoundError and KeyboardInterrupt), then the filter of
\* get_enabled_repositories; a row that passes is handed to the body of the
\* for loop of main(), with repo_count += 1.  The rows read have no more
\* branches than the MaxBranches of the file less those already yielded.
ReadRow(S) ==
    /\ row_num < MaxRows
    /\ \E row \in S :
          /\ row.branches # NoneCell =>
                branches_read + Len(row.branches.list) <= MaxBranches
          /\ row_num' = row_num + 1
          /\ fault' = Fault(row)
          /\ enabled_cell' = row.enabled
          /\ IF Fault(row) # "none"
             THEN /\ Terminate(EXIT_FAILURE, "AttributeError")
                  /\ UNCHANGED <<branches_read, disabled, repo, repo_count>>
             ELSE LET r == from_csv_row(row, row_num + 1) IN
                  /\ disabled' = IF r.enabled THEN disabled
                                 ELSE disabled \cup {row_num + 1}
                  /\ IF Yields(r.enabled, validate(r))
                     THEN /\ branches_read' = branches_read + Len(r.branches)
                          /\ repo' = [path |-> r.path, branches |-> r.branches]
                          /\ repo_count' = repo_count + 1
                          /\ pc' = "update_repository"
                          /\ UNCHANGED <<exit_code, exc>>
                     ELSE UNCHANGED <<branches_read, repo, repo_count, pc, exit_code, exc>>
    /\ UNCHANGED <<config, all_results, results, session, head, pending,
                   summary, warned, history>>

\* a file whose rows have all their cells
NextRow == pc = "next_row" /\ ReadRow(Rows)

\* a file with short rows, empty cells and any text in the enabled column
NextRawRow == pc = "next_row" /\ ReadRow(RawRows)

\* the reader is exhausted: the for loop of main() ends
EndOfFile ==
    /\ pc = "next_row"
    /\ pc' = "after_loop"
    /\ UNCHANGED <<config, reader, repo, repo_count, all_results, results, session,
                   head, pending, exc, exit_code, summary, warned, history>>

\* variant: the records of a repository are put in front of the earlier ones
MainExtend_Mut ==
    /\ pc = "returned"
    /\ all_results' = results \o all_results
    /\ pc' = "next_row"
    /\ UNCHANGED <<config, reader, repo, repo_count, results, session, head,
                   pending, exc, exit_code, summary, warned, history>>

\* main, line 210
MainExtend ==
    /\ pc = "returned"
    /\ all_results' = all_results \o results
    /\ pc' = "next_row"
    /\ UNCHANGED <<config, reader, repo, repo_count, results, session, head,
                   pending, exc, exit_code, summary, warned, history>>

\* main, lines 219-228
MainFinish ==
    /\ pc = "after_loop"
    /\ IF repo_count = 0
       THEN /\ Terminate(EXIT_OK, "none")
            /\ UNCHANGED summary
       ELSE /\ Terminate(ExitStatus(all_results), "none")
            /\ summary' = (all_results # <<>>)
    /\ UNCHANGED <<config, reader, repo, repo_count, all_results, results, session,
                   head, pending, warned, history>>

\* ---------------------------------------------------------------- update_repository()
\* lines 132-144: the dry-run preview, or the construction of GitRepo
UpdateRepository ==
    /\ pc = "update_repository"
    /\ start_branch' = head[repo.path]
    /\ status_out' = "none"
    /\ cmds' = <<>>
    /\ outcomes' = <<>>
    /\ restore' = "none"
    /\ warned' = FALSE
    /\ original_branch' = NoBranch
    /\ entered' = FALSE
    /\ i' = 0
    /\ IF UsesSession(dry_run)
       THEN /\ results' = <<>>
            /\ pc' = "enter"
       ELSE /\ results' = DryRunResults(repo)
            /\ pc' = "returned"
    /\ UNCHANGED <<config, reader, repo, repo_count, all_results, head, pending,
                   exc, exit_code, summary, git_calls, killed, int_pc, unrestored>>

\* GitRepo.__enter__ with get_current_branch: GitError is not caught here,
\* nor in update_repository, nor in main
GitRepoEnter ==
    /\ pc = "enter"
    /\ entered' = TRUE
    /\ RunGit(<<"rev-parse", "HEAD">>)
    /\ \E ok \in BOOLEAN :
          /\ Ended(ok)
          /\ IF ok
             THEN /\ original_branch' = head[repo.path]
                  /\ pc' = "status"
                  /\ UNCHANGED <<exit_code, exc>>
             ELSE /\ Terminate(EXIT_FAILURE, "GitError")
                  /\ UNCHANGED original_branch
    /\ UNCHANGED <<config, reader, repo, repo_count, all_results, results, i, head,
                   pending, summary, warned, start_branch, status_out, restore, killed, int_pc, unrestored>>

\* update_repository, lines 146-152, with GitRepo.has_uncommitted_changes
HasUncommittedChanges ==
    /\ pc = "status"
    /\ RunGit(<<"status", "--porcelain">>)
    /\ \E out \in {"clean", "dirty", "GitError"} :
          /\ status_out' = out
          /\ Ended(out # "GitError")
          /\ IF IsDirty(out)
             THEN /\ results' = results \o FailureResults(repo, DIRTY_MESSAGE)
                  /\ pc' = "exit"
             ELSE /\ pc' = "fetch"
                  /\ UNCHANGED results
    /\ UNCHANGED <<config, reader, repo, repo_count, all_results, session, head,
                   pending, exc, exit_code, summary, warned, start_branch, restore,
                   killed, int_pc, unrestored>>

\* variant: the loop over the branches is left after its first iteration
NextBranch_Mut(k) == IF k > 1 THEN "exit" ELSE "checkout"

\* the for loop over repo.branches, lines 164-172
NextBranch(k) == IF k > Len(repo.branches) THEN "exit" ELSE "checkout"

\* variant: the result of fetch_all is ignored
FetchFailed_Mut(ok) == FALSE

\* update_repository, line 156: fetch_all returned False
FetchFailed(ok) == ~ok

\* update_repository, lines 156-161, with GitRepo.fetch_all
FetchAll ==
    /\ pc = "fetch"
    /\ RunGit(<<"fetch", "--all">>)
    /\ \E ok \in BOOLEAN :
          /\ Ended(ok)
          /\ IF FetchFailed(ok)
             THEN /\ results' = results \o FailureResults(repo, FETCH_MESSAGE)
                  /\ pc' = "exit"
                  /\ UNCHANGED i
             ELSE /\ i' = 1
                  /\ pc' = NextBranch(1)
                  /\ UNCHANGED results
    /\ UNCHANGED <<config, reader, repo, repo_count, all_results, entered,
                   original_branch, head, pending, exc, exit_code, summary, warned,
                   start_branch, status_out, restore, killed, int_pc, unrestored>>

\* variant: update_branch pulls whatever the checkout returned
CheckoutFailed_Mut(ok) == FALSE

\* GitRepo.update_branch, line 197: checkout returned False
CheckoutFailed(ok) == ~ok

\* GitRepo.update_branch, lines 197-200, with GitRepo.checkout: a checkout
\* that succeeds leaves the working copy on the branch
Checkout ==
    /\ pc = "checkout"
    /\ LET branch == repo.branches[i] IN
       /\ RunGit(<<"checkout", branch>>)
       /\ \E ok \in BOOLEAN :
             /\ Ended(ok)
             /\ head' = IF ok THEN [head EXCEPT ![repo.path] = branch] ELSE head
             /\ IF CheckoutFailed(ok)
                THEN /\ results' = Append(results,
                           failure_result(repo.path, branch, CheckoutMessage(branch)))
                     /\ i' = i + 1
                     /\ pc' = NextBranch(i + 1)
                ELSE /\ pc' = "pull"
                     /\ UNCHANGED <<results, i>>
    /\ UNCHANGED <<config, reader, repo, repo_count, all_results, entered,
                   original_branch, pending, exc, exit_code, summary, warned,
                   start_branch, status_out, restore, killed, int_pc, unrestored>>

\* variant: a pull that failed is issued again
Pull_Mut ==
    /\ pc = "pull"
    /\ LET branch == repo.branches[i] IN
       /\ RunGit(<<"pull", "--ff-only">>)
       /\ \E ok \in BOOLEAN :
             /\ Ended(ok)
             /\ IF ok
                THEN /\ results' = Append(results,
                           success_result(repo.path, branch, UpdatedMessage(branch)))
                     /\ i' = i + 1
                     /\ pc' = NextBranch(i + 1)
                ELSE UNCHANGED <<results, i, pc>>
    /\ UNCHANGED <<config, reader, repo, repo_count, all_results, entered,
                   original_branch, head, pending, exc, exit_code, summary, warned,
                   start_branch, status_out, restore, killed, int_pc, unrestored>>

\* GitRepo.update_branch, lines 203-210, with GitRepo.pull
Pull ==
    /\ pc = "pull"
    /\ LET branch == repo.branches[i] IN
       /\ RunGit(<<"pull", "--ff-only">>)
       /\ \E ok \in BOOLEAN :
             /\ Ended(ok)
             /\ results' = Append(results,
                    IF ok THEN success_result(repo.path, branch, UpdatedMessage(branch))
                          ELSE failure_result(repo.path, branch, PullMessage(branch)))
    /\ i' = i + 1
    /\ pc' = NextBranch(i + 1)
    /\ UNCHANGED <<config, reader, repo, repo_count, all_results, entered,
                   original_branch, head, pending, exc, exit_code, summary, warned,
                   start_branch, status_out, restore, killed, int_pc, unrestored>>

\* variant: __exit__ swallows the exception that passes through it
LeaveWith_Mut ==
    /\ pc' = "returned"
    /\ UNCHANGED <<exit_code, exc>>

\* where control goes when the with statement is left: the return of
\* update_repository, or the KeyboardInterrupt that main() turns into 130
LeaveWith ==
    IF pending = "KeyboardInterrupt"
    THEN Terminate(EXIT_INTERRUPTED, "KeyboardInterrupt")
    ELSE /\ pc' = "returned"
         /\ UNCHANGED <<exit_code, exc>>

\* variant: __exit__ has no handler for the failure of its checkout
CaughtInExit_Mut(e) == FALSE

\* GitRepo.__exit__, line 74: except GitError
CaughtInExit(e) == e = "GitError"

\* GitRepo.__exit__, lines 71-75
GitRepoExit ==
    /\ pc = "exit"
    /\ IF ShouldRestore(original_branch)
       THEN /\ RunGit(<<"checkout", original_branch>>)
            /\ \E ok \in BOOLEAN :
                  /\ Ended(ok)
                  /\ IF ok
                     THEN /\ head' = [head EXCEPT ![repo.path] = original_branch]
                          /\ restore' = "ok"
                          /\ UNCHANGED <<warned, unrestored>>
                          /\ LeaveWith
                     ELSE /\ restore' = "failed"
                          /\ unrestored' = unrestored \cup {repo.path}
                          /\ UNCHANGED head
                          /\ IF CaughtInExit("GitError")
                             THEN /\ warned' = TRUE
                                  /\ LeaveWith
                             ELSE /\ Terminate(EXIT_FAILURE, "GitError")
                                  /\ UNCHANGED warned
       ELSE /\ UNCHANGED <<cmds, outcomes, git_calls, head, restore, warned, unrestored>>
            /\ LeaveWith
    /\ UNCHANGED <<config, reader, repo, repo_count, all_results, results, session,
                   pending, summary, start_branch, status_out, killed, int_pc>>

\* ---------------------------------------------------------------- interrupt
\* the git command that _run_git runs at each position
CommandAt(p) ==
    CASE p = "enter" -> <<"rev-parse", "HEAD">>
      [] p = "status" -> <<"status", "--porcelain">>
      [] p = "fetch" -> <<"fetch", "--all">>
      [] p = "checkout" -> <<"checkout", repo.branches[i]>>
      [] p = "pull" -> <<"pull", "--ff-only">>
      [] p = "exit" -> <<"checkout", original_branch>>

\* whether _run_git has a command to run at position p
RunsCommand(p) ==
    /\ p \in GitPcs
    /\ p = "exit" => ShouldRestore(original_branch)

\* variant: the interrupt leaves the with body without running __exit__
InterruptTarget_Mut(p) == "done"

\* where a KeyboardInterrupt raised at position p goes: inside the with body
\* it passes through GitRepo.__exit__, elsewhere it reaches main() at once
InterruptTarget(p) == IF p \in BodyPcs THEN "exit" ELSE "done"

\* KeyboardInterrupt, raised once at any point of the try block of main()
\* (lines 206-217).  Raised while subprocess.run (git_operations.py, line 94)
\* waits for a command, the command is aborted: a checkout aborted in flight
\* may or may not have moved the working copy.
KeyboardInterrupt ==
    /\ pc \in TryPcs
    /\ pending = "none"
    /\ pending' = "KeyboardInterrupt"
    /\ int_pc' = pc
    /\ \E inflight \in BOOLEAN :
          /\ inflight => RunsCommand(pc)
          /\ killed' = (killed \/ inflight)
          /\ entered' = (entered \/ pc = "enter")
          /\ IF inflight
             THEN /\ RunGit(CommandAt(pc))
                  /\ outcomes' = Append(outcomes, "killed")
                  /\ restore' = IF pc = "exit" THEN "killed" ELSE restore
                  /\ \E moved \in BOOLEAN :
                        head' = IF moved /\ pc \in {"checkout", "exit"}
                                THEN [head EXCEPT ![repo.path] = CommandAt(pc)[2]]
                                ELSE head
             ELSE UNCHANGED <<cmds, outcomes, git_calls, restore, head>>
    /\ IF InterruptTarget(pc) = "exit"
       THEN /\ pc' = "exit"
            /\ UNCHANGED <<exit_code, exc>>
       ELSE Terminate(EXIT_INTERRUPTED, "KeyboardInterrupt")
    /\ UNCHANGED <<config, reader, repo, repo_count, all_results, results,
                   original_branch, i, summary, warned, start_branch, status_out,
                   unrestored>>

\* ---------------------------------------------------------------- specification
Next ==
    \/ MainCheckCsv
    \/ LoadRepositories
    \/ NextRow
    \/ EndOfFile
    \/ UpdateRepository
    \/ GitRepoEnter
    \/ HasUncommittedChanges
    \/ FetchAll
    \/ Checkout
    \/ Pull
    \/ GitRepoExit
    \/ MainExtend
    \/ MainFinish
    \/ KeyboardInterrupt

Spec == Init /\ [][Next]_vars

\* the loader on any row, under the dry-run preview
InitLoader == Init /\ dry_run

NextLoader ==
    \/ MainCheckCsv
    \/ LoadRepositories
    \/ NextRawRow
    \/ EndOfFile
    \/ UpdateRepository
    \/ MainExtend
    \/ MainFinish
    \/ KeyboardInterrupt

SpecLoader == InitLoader /\ [][NextLoader]_vars

TypeOK ==
    /\ csv \in CsvKinds
    /\ dry_run \in BOOLEAN
    /\ pc \in TryPcs \cup {"main", "after_loop", "done"}
    /\ row_num \in 0..MaxRows
    /\ branches_read \in 0..MaxBranches
    /\ repo_count \in 0..row_num
    /\ disabled \subseteq 1..MaxRows
    /\ fault \in {"none", "path", "branches", "enabled"}
    /\ enabled_cell \in EnabledCells
    /\ repo.path \in 0..CWD
    /\ repo.branches \in BranchLists
    /\ Len(results) <= MaxBranches
    /\ entered \in BOOLEAN
    /\ original_branch \in BranchNames \cup InitHeads \cup {NoBranch}
    /\ i \in 0..(MaxBranches + 1)
    /\ head \in [Paths -> BranchNames \cup InitHeads]
    /\ pending \in {"none", "KeyboardInterrupt"}
    /\ exc \in {"none", "KeyboardInterrupt", "GitError", "FileNotFoundError", "ValueError",
               "AttributeError"}
    /\ exit_code \in {NOT_EXITED, EXIT_OK, EXIT_FAILURE, EXIT_INTERRUPTED}
    /\ summary \in BOOLEAN
    /\ warned \in BOOLEAN
    /\ restore \in {"none", "ok", "failed", "killed"}
    /\ killed \in BOOLEAN
    /\ git_calls \in Nat
    /\ Len(outcomes) = Len(cmds)
    /\ \A k \in 1..Len(outcomes) : outcomes[k] \in {"ok", "failed", "killed"}
    /\ status_out \in {"none", "clean", "dirty", "GitError"}
    /\ int_pc \in TryPcs \cup {"none"}
    /\ unrestored \subseteq Paths

\* ---------------------------------------------------------------- properties
\* update_repository has returned its list to main()
Returned == pc = "returned"

\* the run is over without a KeyboardInterrupt
EndedUninterrupted == pc = "done" /\ int_pc = "none"

LastCommand == IF cmds = <<>> THEN <<>> ELSE cmds[Len(cmds)]

CommandNames == {cmds[k][1] : k \in 1..Len(cmds)}

\* C1: every call of update_repository, whatever git commands fail, hands
\* back exactly one record per requested branch, in the order of repo.branches.
C1_OneRecordPerBranch ==
    (Returned \/ (pc = "done" /\ exc = "GitError"))
        => /\ Returned
           /\ Len(results) = Len(repo.branches)
           /\ \A k \in 1..Len(results) : results[k].branch = repo.branches[k]

\* C2: when update_repository returns for a repository that is not a dry run,
\* the working copy is on the branch it was on when the call began, unless the
\* restoring checkout failed; the warning is logged exactly in that case.
C2_Restoration ==
    (Returned /\ ~dry_run)
        => /\ head[repo.path] = start_branch \/ restore = "failed"
           /\ warned <=> restore = "failed"

C2_Witness ==
    /\ Returned
    /\ ~dry_run
    /\ restore = "ok"
    /\ head[repo.path] = start_branch
    /\ \E k \in 1..Len(results) : results[k].success /\ results[k].branch # start_branch

\* C3 as claimed: a repository with uncommitted changes gets one failure per
\* branch and no fetch, checkout or pull is issued while it is processed.
C3_NoCommandWhenDirty ==
    (Returned /\ status_out \in {"dirty", "GitError"})
        => /\ results = FailureResults(repo, DIRTY_MESSAGE)
           /\ CommandNames \cap {"fetch", "checkout", "pull"} = {}

\* C3 as amended: a repository with uncommitted changes gets one failure per
\* branch with message "Uncommitted changes present"; no fetch and no pull is
\* issued and no requested branch is checked out: the only checkout is the
\* restoring checkout of the original branch issued on release.
C3_DirtySkipsUpdate ==
    (Returned /\ status_out \in {"dirty", "GitError"})
        => /\ Len(results) = Len(repo.branches)
           /\ \A k \in 1..Len(results) :
                 results[k] = failure_result(repo.path, repo.branches[k], DIRTY_MESSAGE)
           /\ cmds = << <<"rev-parse", "HEAD">>, <<"status", "--porcelain">>,
                        <<"checkout", start_branch>> >>

C3_Witness ==
    /\ Returned
    /\ status_out = "dirty"
    /\ Len(results) >= 2
    /\ LastCommand = <<"checkout", start_branch>>

\* C4: in a dry run no GitRepo session is entered, no git command is run, no
\* working copy moves, and update_repository returns one success record per
\* branch with message "[DRY RUN] Would update".
C4_DryRun ==
    /\ [](dry_run => (git_calls = 0 /\ ~entered /\ cmds = <<>>))
    /\ []((dry_run /\ Returned) =>
            /\ Len(results) = Len(repo.branches)
            /\ \A k \in 1..Len(results) :
                  results[k] = success_result(repo.path, repo.branches[k], DRY_RUN_MESSAGE))
    /\ [][dry_run => head' = head]_vars

C4_Witness ==
    /\ dry_run
    /\ Returned
    /\ Len(results) >= 2
    /\ repo_count = 2

\* C5: a run that loads the configuration and is not interrupted exits with 0
\* exactly when no repository was processed or there is at least one outcome
\* and none is a failure, and with 1 otherwise.
C5_ExitStatus ==
    (EndedUninterrupted /\ csv = "ok")
        => exit_code = IF \/ repo_count = 0
                          \/ (all_results # <<>> /\ Failures(all_results) = 0)
                       THEN EXIT_OK ELSE EXIT_FAILURE

\* C6: every configuration-file error ends the run with status 1, with no
\* repository processed and no summary.
C6_ConfigErrorFatal ==
    (EndedUninterrupted /\ csv # "ok")
        => /\ exit_code = EXIT_FAILURE
           /\ repo_count = 0
           /\ ~summary

\* C7: a run in which a KeyboardInterrupt was raised while repositories were
\* processed ends with status 130 and without a summary, whatever outcomes
\* had been collected.
C7_InterruptStatus ==
    (pc = "done" /\ int_pc # "none")
        => /\ exit_code = EXIT_INTERRUPTED
           /\ exc = "KeyboardInterrupt"
           /\ ~summary

C7_Witness ==
    /\ pc = "done"
    /\ int_pc # "none"
    /\ Failures(all_results) > 0
    /\ exit_code = EXIT_INTERRUPTED

\* C8: when the KeyboardInterrupt was raised inside the with body, the run
\* ends with 130 after __exit__ has issued the restoring checkout, and the
\* working copy is back on the original branch unless that checkout failed.
C8_ReleaseOnInterrupt ==
    (pc = "done" /\ int_pc \in BodyPcs)
        => /\ exit_code = EXIT_INTERRUPTED
           /\ restore \in {"ok", "failed"}
           /\ LastCommand = <<"checkout", original_branch>>
           /\ original_branch = start_branch
           /\ restore = "ok" => head[repo.path] = start_branch

C8_Witness ==
    /\ pc = "done"
    /\ int_pc = "pull"
    /\ restore = "ok"
    /\ repo.branches[i] # start_branch
    /\ head[repo.path] = start_branch

\* C9: no git command that was started is aborted by an interrupt.
C9_NoCommandAborted == ~killed

\* C10: a failed current-branch query does not end the run: no run ends in
\* the GitError of rev-parse, the session opens with original_branch unknown.
C10_SessionStillOpens ==
    LastCommand = <<"rev-parse", "HEAD">> /\ pc \notin {"enter"} /\ int_pc = "none"
        => /\ exc # "GitError"
           /\ pc = "status"

\* the fetch of the current repository succeeded
FetchOk == Len(cmds) >= 3 /\ cmds[3][1] = "fetch" /\ outcomes[3] = "ok"

\* positions of the log at which a command of the given name was issued
Issued(name) == {k \in 1..Len(cmds) : cmds[k][1] = name}

\* C11: no failing git command raises out of update_repository: no run is
\* ended by a GitError.
C11_NoGitErrorEscapes == exc # "GitError"

\* C12: once the fetch has succeeded every requested branch is attempted,
\* whatever happened to the branches before it, and when update_repository
\* returns, whatever its records and the fate of the restoring checkout, main()
\* appends them and asks the reader for the next repository.
C12_FailureIsolation ==
    /\ []((Returned /\ FetchOk) =>
            /\ Len(results) = Len(repo.branches)
            /\ Cardinality(Issued("checkout")) = Len(repo.branches) + 1
            /\ \A k \in 1..Len(repo.branches) :
                  \E c \in Issued("checkout") :
                      c < Len(cmds) /\ cmds[c][2] = repo.branches[k])
    /\ [][(Returned /\ pending' = "none") =>
            (pc' = "next_row" /\ all_results' = all_results \o results)]_vars

C12_Witness ==
    /\ Returned
    /\ FetchOk
    /\ repo_count = 2
    /\ Failures(all_results) > 0
    /\ Len(results) = 2
    /\ ~results[1].success
    /\ results[2].success
    /\ restore = "failed"

\* C13: a row whose enabled flag is false is never handed to
\* update_repository: it is not the repository a session or a command runs
\* against, no record carries its path, and every counted repository is a
\* row that was read and not disabled.
C13_DisabledSkipped ==
    /\ \A p \in disabled :
          /\ repo.path # p
          /\ \A k \in 1..Len(results) : results[k].repo_path # p
          /\ \A k \in 1..Len(all_results) : all_results[k].repo_path # p
    /\ repo_count + Cardinality(disabled) <= row_num

C13_Witness ==
    /\ disabled = {1}
    /\ repo_count = 1
    /\ Returned
    /\ git_calls > 0
    /\ Len(results) = 2

\* C14: a row whose path cell is absent or empty yields no record and does
\* not end the run: the loader never trips on the None of a path cell, and
\* no repository is yielded for the path that the empty text stands for.
C14_MissingPathSkipped ==
    /\ fault # "path"
    /\ repo.path # CWD

\* C15: the flag of a row that was read is true exactly when the enabled
\* column is absent or its trimmed, lower-cased text is true, yes, 1 or
\* empty, and reading the flag never ends the run.
C15_EnabledFlag ==
    /\ fault # "enabled"
    /\ (row_num > 0 /\ fault = "none") =>
          (row_num \notin disabled <=>
              \/ enabled_cell = AbsentCell
              \/ lower(strip(enabled_cell.text)) \in
                    {<<"t", "r", "u", "e">>, <<"y", "e", "s">>, <<"1">>, <<>>})

\* position in the log of the checkout of the k-th requested branch: the
\* log of a session is rev-parse, status, fetch, then per branch a checkout
\* and, if that one succeeded, a pull
RECURSIVE CheckoutAt(_)
CheckoutAt(k) ==
    IF k = 1 THEN 4
    ELSE LET c == CheckoutAt(k - 1)
         IN  IF c <= Len(outcomes) /\ outcomes[c] = "ok" THEN c + 2 ELSE c + 1

\* C16: update_branch gives one record per call: a failed checkout gives
\* the failure "Failed to checkout branch '<branch>'" and no pull follows;
\* a checkout followed by a failed pull gives the failure "Failed to pull
\* branch '<branch>'"; both succeeding gives the success "Successfully
\* updated '<branch>'".
C16_UpdateBranchResults ==
    (Returned /\ FetchOk) =>
        /\ Len(results) = Len(repo.branches)
        /\ \A k \in 1..Len(repo.branches) :
              LET b == repo.branches[k]
                  c == CheckoutAt(k)
              IN  /\ c < Len(cmds)
                  /\ cmds[c] = <<"checkout", b>>
                  /\ results[k].repo_path = repo.path
                  /\ results[k].branch = b
                  /\ IF outcomes[c] = "failed"
                     THEN /\ ~results[k].success
                          /\ results[k].message = <<"Failed to checkout branch '", b, "'">>
                          /\ cmds[c + 1][1] # "pull"
                     ELSE /\ cmds[c + 1] = <<"pull", "--ff-only">>
                          /\ c + 1 < Len(cmds)
                          /\ IF outcomes[c + 1] = "failed"
                             THEN /\ ~results[k].success
                                  /\ results[k].message =
                                        <<"Failed to pull branch '", b, "'">>
                             ELSE /\ results[k].success
                                  /\ results[k].message =
                                        <<"Successfully updated '", b, "'">>

C16_Witness ==
    /\ Returned /\ FetchOk
    /\ Len(results) = 3
    /\ results[1].message = <<"Failed to checkout branch '", repo.branches[1], "'">>
    /\ results[2].message = <<"Failed to pull branch '", repo.branches[2], "'">>
    /\ results[3].message = <<"Successfully updated '", repo.branches[3], "'">>
    /\ Len(cmds) = 9

\* C17: when the working tree is clean and the fetch fails, update_repository
\* returns one failure "Failed to fetch remotes" per requested branch; no
\* pull was issued and the only checkout is the one of __exit__, back to the
\* branch the working copy was on and still is on.
C17_FetchFailure ==
    (Returned /\ status_out = "clean" /\ Len(cmds) >= 3 /\ outcomes[3] = "failed") =>
        /\ cmds[3] = <<"fetch", "--all">>
        /\ results = [k \in 1..Len(repo.branches) |->
                        [repo_path |-> repo.path, branch |-> repo.branches[k],
                         success |-> FALSE, message |-> <<"Failed to fetch remotes">>]]
        /\ Issued("pull") = {}
        /\ Issued("checkout") = {4}
        /\ cmds[4] = <<"checkout", start_branch>>
        /\ Len(cmds) = 4
        /\ head[repo.path] = start_branch

C17_Witness ==
    /\ Returned
    /\ status_out = "clean"
    /\ Len(cmds) = 4
    /\ outcomes[3] = "failed"
    /\ outcomes[4] = "ok"
    /\ Len(results) = 2
    /\ start_branch = "topic"

\* C18: __exit__ never raises: a step of __exit__ leaves the records of
\* update_repository as they are and never ends the run with a GitError;
\* when its checkout fails it warns, and unless an interrupt is under way
\* update_repository returns.
C18_ReleaseNeverRaises ==
    [][pc = "exit" =>
          /\ results' = results
          /\ exc' # "GitError"
          /\ restore' = "failed" => warned'
          /\ exc' = "none" => pc' = "returned"]_vars

C18_Witness ==
    /\ Returned
    /\ restore = "failed"
    /\ warned
    /\ exc = "none"
    /\ Len(results) = 2
    /\ results[2].success

\* C19: the records handed to the summary are in the order of the rows of
\* the configuration and, within a repository, in the order of its
\* branches: update_repository returns its records in the order of
\* repo.branches, main() appends them behind those of the earlier
\* repositories, and so the paths along all_results never step back.
C19_ResultOrder ==
    /\ [](\A j, k \in 1..Len(all_results) :
             j < k => all_results[j].repo_path <= all_results[k].repo_path)
    /\ [](Returned =>
             /\ Len(results) = Len(repo.branches)
             /\ \A k \in 1..Len(results) :
                   /\ results[k].branch = repo.branches[k]
                   /\ results[k].repo_path = repo.path)
    /\ [][(pc = "returned" /\ pc' = "next_row") =>
             /\ SubSeq(all_results', 1, Len(all_results)) = all_results
             /\ SubSeq(all_results', Len(all_results) + 1, Len(all_results')) = results]_vars

C19_Witness ==
    /\ pc = "done"
    /\ summary
    /\ Len(all_results) = 3
    /\ all_results[1].repo_path = 1
    /\ all_results[2].repo_path = 2
    /\ all_results[2].branch = "dev"
    /\ all_results[3].branch = "main"

\* C20: when status --porcelain fails, has_uncommitted_changes answers true:
\* update_repository returns one failure "Uncommitted changes present" per
\* requested branch and no fetch is issued.
C20_StatusFailSafe ==
    (Returned /\ status_out = "GitError") =>
        /\ cmds[2] = <<"status", "--porcelain">>
        /\ outcomes[2] = "failed"
        /\ results = [k \in 1..Len(repo.branches) |->
                        [repo_path |-> repo.path, branch |-> repo.branches[k],
                         success |-> FALSE, message |-> <<"Uncommitted changes present">>]]
        /\ Issued("fetch") = {}
        /\ Issued("pull") = {}

C20_Witness ==
    /\ Returned
    /\ status_out = "GitError"
    /\ Len(results) = 2
    /\ Len(cmds) = 3

\* positions in the log of the checkouts of update_branch: every checkout
\* but the restoring one of __exit__, which is the last command of its log
BranchCheckouts ==
    Issued("checkout") \ (IF restore # "none" THEN {Len(cmds)} ELSE {})

\* C21: the commands of a repository come in a fixed order: the status
\* check before the fetch, at most one fetch and that one before every
\* checkout of update_branch, every pull issued right after the checkout of
\* the branch of its iteration; and no command is retried: a step whose
\* command fails moves on to another position or another branch.
C21_CommandOrder ==
    /\ [](/\ \A f \in Issued("fetch") : \E st \in Issued("status") : st < f
          /\ Cardinality(Issued("fetch")) <= 1
          /\ Cardinality(Issued("status")) <= 1
          /\ \A c \in BranchCheckouts : \E f \in Issued("fetch") : f < c)
    /\ [][cmds' = Append(cmds, <<"pull", "--ff-only">>) =>
             /\ LastCommand = <<"checkout", repo.branches[i]>>
             /\ CheckoutAt(i) = Len(cmds)]_vars
    /\ [][(Len(outcomes') = Len(outcomes) + 1 /\ outcomes'[Len(outcomes')] = "failed")
             => <<pc, i>>' # <<pc, i>>]_vars

C21_Witness ==
    /\ Returned /\ FetchOk
    /\ Cardinality(Issued("pull")) = 2
    /\ Cardinality(BranchCheckouts) = 3
    /\ outcomes[4] = "failed"
    /\ outcomes[8] = "failed"
    /\ restore = "ok"

\* C22: pull --ff-only is issued only while the working copy is on the
\* branch of the current iteration, right after the checkout of that
\* branch succeeded: never on the branch a failed checkout left it on.
C22_PullOnRequestedBranch ==
    /\ [](pc = "pull" => head[repo.path] = repo.branches[i])
    /\ [][cmds' = Append(cmds, <<"pull", "--ff-only">>) =>
             /\ head[repo.path] = repo.branches[i]
             /\ outcomes[Len(cmds)] = "ok"]_vars

C22_Witness ==
    /\ Returned
    /\ start_branch = "topic"
    /\ Len(results) = 2
    /\ repo.branches[1] # repo.branches[2]
    /\ results[1].message = CheckoutMessage(repo.branches[1])
    /\ results[2].success
    /\ Cardinality(Issued("pull")) = 1

\* positions in the run-wide list of the records of the repository at path p
PositionsOf(p) == {k \in 1..Len(all_results) : all_results[k].repo_path = p}

\* C23: a restoring checkout that fails changes neither the records nor the
\* exit status: the step leaves results and all_results as they are; a run
\* that ends with success records only exits with 0 although a working copy
\* was not restored; and a working copy that was not restored, all of whose
\* branches were updated, is on the last of them.
C23_RestoreFailureFrame ==
    /\ []((pc = "done" /\ exc = "none" /\ unrestored # {} /\ Failures(all_results) = 0)
            => exit_code = EXIT_OK)
    /\ []((Returned /\ restore = "failed" /\ results # <<>> /\ Failures(results) = 0)
            => head[repo.path] = repo.branches[Len(repo.branches)])
    /\ [](\A p \in unrestored :
             (PositionsOf(p) # {} /\ \A k \in PositionsOf(p) : all_results[k].success)
                => LET last == CHOOSE k \in PositionsOf(p) : \A j \in PositionsOf(p) : j <= k
                   IN  head[p] = all_results[last].branch)
    /\ [][(restore # "failed" /\ restore' = "failed") =>
             /\ results' = results
             /\ all_results' = all_results
             /\ pending = "none" => (exit_code' = exit_code /\ pc' = "returned")]_vars

C23_Witness ==
    /\ pc = "done"
    /\ exit_code = EXIT_OK
    /\ exc = "none"
    /\ unrestored = {1}
    /\ repo_count = 2
    /\ Len(all_results) = 3
    /\ head[1] = "dev"
    /\ summary
====
